---- MODULE Spec2Model ----
(***************************************************************************)
(* The recording supervisor of the Sports DVR service: RecordingManager    *)
(* (recording/manager.py), the routes that call it (api/routes.py) and the *)
(* shutdown hook (main.py).  All coroutines run on one asyncio event loop, *)
(* so every action below is the code between two suspension points:        *)
(* create_subprocess_exec (manager.py:92), process.wait (manager.py:146)   *)
(* and asyncio.sleep (manager.py:122).                                     *)
(***************************************************************************)
EXTENDS Integers, Sequences, FiniteSets, TLC

\* ---- bounds of the model ------------------------------------------------
MaxCeiling == 1
MaxElapsed == 1
MaxStopWaiters == 2

\* ---- program constants ---------------------------------------------------
SleepSeconds == 10
SecondsPerMinute == 60

EventIds == {"e1", "e2"}
\* RecordingRequest.duration_minutes is a plain int: zero and negatives pass.
Durations == {-1, 0, 1}

VARIABLES
    recordings,      \* self._recordings: event_id -> record (a dict)
    processes,       \* self._processes: its keys, in insertion order
    max_concurrent,  \* self.max_concurrent
    proc,            \* the external process of each event_id
    launched,        \* how many processes were ever launched per event_id
    launching,       \* start_recording suspended in create_subprocess_exec
    monitor,         \* the _monitor_recording task of each event_id
    stopping,        \* stop_recording calls (routes) suspended in process.wait
    stopAll,         \* the stop_all coroutine run by lifespan at shutdown
    last             \* the call that made the last step and how it ended

vars == <<recordings, processes, max_concurrent, proc, launched, launching,
          monitor, stopping, stopAll, last>>

\* ---- progress_percent is a float: kept as an exact fraction --------------
RECURSIVE GCD(_, _)
GCD(a, b) == IF b = 0 THEN a ELSE GCD(b, a % b)

Abs(n) == IF n < 0 THEN 0 - n ELSE n

Rat(n, d) ==
    LET sn == IF d < 0 THEN 0 - n ELSE n
        sd == Abs(d)
        g  == GCD(Abs(sn), sd)
    IN  [num |-> sn \div g, den |-> sd \div g]

RatLeq(a, b) == a.num * b.den <= b.num * a.den

RatMin(a, b) == IF RatLeq(a, b) THEN a ELSE b

Zero == Rat(0, 1)
Hundred == Rat(100, 1)

\* ---- RecordingManager ----------------------------------------------------
InRecordings(e) == e \in DOMAIN recordings

InProcessesOf(ps, e) == \E i \in 1..Len(ps) : ps[i] = e

InProcesses(e) == InProcessesOf(processes, e)

RemoveKey(ps, e) == SelectSeq(ps, LAMBDA x : x # e)

\* self._recordings.get(event_id): the record, or None.
None == [event_id |-> "none"]

get_recording(e) == IF e \in DOMAIN recordings THEN recordings[e] ELSE None

active_count ==
    Cardinality({e \in DOMAIN recordings : recordings[e].status = "recording"})

\* f"/recordings/{recording_dir.name}/stream.m3u8" as its path segments.
\* The directory name is made of the event name and the start time
\* (manager.py:51-53); one call makes one name, which the event_id stands
\* for here.
timeshift_url(e) == <<"recordings", e, "stream.m3u8">>

\* The record made with no URL yet ("timeshift_url" filled in after the
\* launch instead of at manager.py:86).
recording_info_no_url(e, d) ==
    [event_id         |-> e,
     status           |-> "starting",
     progress_percent |-> Zero,
     started_at       |-> "set",
     completed_at     |-> "unset",
     duration_minutes |-> d,
     timeshift_url    |-> << >>,
     error            |-> "unset"]

recording_info(e, d) ==
    [event_id         |-> e,
     status           |-> "starting",
     progress_percent |-> Zero,
     started_at       |-> "set",
     completed_at     |-> "unset",
     duration_minutes |-> d,
     timeshift_url    |-> timeshift_url(e),
     error            |-> "unset"]

SetField(recs, e, f, v) == [recs EXCEPT ![e] = [@ EXCEPT ![f] = v]]

Put(recs, e, r) ==
    [x \in (DOMAIN recs) \cup {e} |-> IF x = e THEN r ELSE recs[x]]

Op(op, e, outcome) == [op |-> op, event_id |-> e, outcome |-> outcome]

\* The last step was no call's: a process, the clock or a monitor moved.
Internal == Op("internal", "none", "none")

NoMonitor == [pc |-> "none", elapsed |-> 0, sleep_left |-> 0]

Init ==
    /\ recordings = << >>
    /\ processes = << >>
    /\ max_concurrent \in 1..MaxCeiling
    /\ proc = [e \in EventIds |-> "none"]
    /\ launched = [e \in EventIds |-> 0]
    /\ launching = [e \in EventIds |-> "no"]
    /\ monitor = [e \in EventIds |-> NoMonitor]
    /\ stopping = [e \in EventIds |-> 0]
    /\ stopAll = [pc |-> "idle", todo |-> << >>]
    /\ last = Internal

\* GET /timeshift/{event_id} (routes.py:64-80): it reads and changes nothing.
get_timeshift_url(e) ==
    LET recording == get_recording(e)
    IN  IF recording = None
        THEN [http |-> 404, detail |-> "Recording not found"]
        ELSE IF recording.timeshift_url = << >>
        THEN [http |-> 404, detail |-> "Time-shift not available"]
        ELSE [http          |-> 200,
              event_id      |-> e,
              timeshift_url |-> recording.timeshift_url,
              status        |-> recording.status]

\* The server takes requests until lifespan runs its shutdown half.
Serving == stopAll.pc = "idle"

\* uvicorn.run returns once lifespan's shutdown half has ended, normally or
\* with an error: the event loop is closed and no task runs any more.
LoopRunning == stopAll.pc \notin {"done", "error"}

\* start_recording without the test of manager.py:46: every call inserts a
\* fresh record and goes on to launch.
start_recording_unchecked(e, d) ==
    /\ recordings' = Put(recordings, e, recording_info(e, d))
    /\ launching' = [launching EXCEPT ![e] = "awaiting"]
    /\ last' = Op("start_recording", e, "suspended")

\* start_recording that suspends in the launch before it has stored the
\* record (manager.py:88 moved after the await of manager.py:92).
start_recording_late(e, d) ==
    IF InRecordings(e)
    THEN /\ last' = Op("start_recording", e, "existing")
         /\ UNCHANGED <<recordings, launching>>
    ELSE /\ recordings' = recordings
         /\ launching' = [launching EXCEPT ![e] = "awaiting"]
         /\ last' = Op("start_recording", e, "suspended")

\* manager.start_recording up to its first suspension (manager.py:46-92).
start_recording(e, d) ==
    IF InRecordings(e)
    THEN /\ last' = Op("start_recording", e, "existing")
         /\ UNCHANGED <<recordings, launching>>
    ELSE /\ recordings' = Put(recordings, e, recording_info(e, d))
         /\ launching' = [launching EXCEPT ![e] = "awaiting"]
         /\ last' = Op("start_recording", e, "suspended")

\* POST /record/{event_id} (routes.py:35-53).
StartRequest(e, d) ==
    /\ Serving
    /\ IF active_count >= max_concurrent
       THEN /\ last' = Op("start_recording", e, "HTTP429")
            /\ UNCHANGED <<recordings, launching>>
       ELSE start_recording(e, d)
    /\ UNCHANGED <<processes, max_concurrent, proc, launched, monitor,
                   stopping, stopAll>>

\* The operating system creates the process while the caller is suspended.
SpawnProcess(e) ==
    /\ LoopRunning
    /\ launching[e] = "awaiting"
    /\ launched[e] < 2
    /\ launching' = [launching EXCEPT ![e] = "spawned"]
    /\ proc' = [proc EXCEPT ![e] = "running"]
    /\ launched' = [launched EXCEPT ![e] = @ + 1]
    /\ last' = Internal
    /\ UNCHANGED <<recordings, processes, max_concurrent, monitor, stopping,
                   stopAll>>

\* create_subprocess_exec returned a process (manager.py:97-102, 109).
LaunchSucceeded(e) ==
    /\ LoopRunning
    /\ launching[e] = "spawned"
    /\ launching' = [launching EXCEPT ![e] = "no"]
    /\ processes' = IF InProcesses(e) THEN processes ELSE Append(processes, e)
    /\ recordings' = SetField(recordings, e, "status", "recording")
    /\ monitor' = [monitor EXCEPT ![e] = [NoMonitor EXCEPT !.pc = "created"]]
    /\ last' = Op("start_recording", e, "returned")
    /\ UNCHANGED <<max_concurrent, proc, launched, stopping, stopAll>>

\* The launch failure without the except clause of manager.py:104: the
\* exception leaves start_recording.
LaunchFailedUncaught(e) ==
    /\ LoopRunning
    /\ launching[e] = "awaiting"
    /\ launching' = [launching EXCEPT ![e] = "no"]
    /\ last' = Op("start_recording", e, "raised")
    /\ UNCHANGED <<recordings, processes, max_concurrent, proc, launched,
                   monitor, stopping, stopAll>>

\* create_subprocess_exec raised (manager.py:104-107, 109).
LaunchFailed(e) ==
    /\ LoopRunning
    /\ launching[e] = "awaiting"
    /\ launching' = [launching EXCEPT ![e] = "no"]
    /\ recordings' = SetField(SetField(recordings, e, "status", "failed"),
                              e, "error", "launch_error")
    /\ last' = Op("start_recording", e, "returned")
    /\ UNCHANGED <<processes, max_concurrent, proc, launched, monitor,
                   stopping, stopAll>>

\* The external process ends: its -t limit, an error, or the SIGTERM it got.
ProcessExit(e) ==
    /\ LoopRunning
    /\ proc[e] \in {"running", "terminating"}
    /\ proc' = [proc EXCEPT ![e] = "exited"]
    /\ last' = Internal
    /\ UNCHANGED <<recordings, processes, max_concurrent, launched, launching,
                   monitor, stopping, stopAll>>

\* ---- _monitor_recording ---------------------------------------------------
total_seconds(e) == recordings[e].duration_minutes * SecondsPerMinute

\* min(100.0, (elapsed / total_seconds) * 100)  (manager.py:127-128)
progress(elapsed, total) ==
    RatMin(Hundred, Rat(elapsed * SleepSeconds * 100, total))

\* The end of the monitor without progress_percent = 100.0 (manager.py:134
\* left out).
completed_keeps_progress(recs, e) ==
    IF e \in DOMAIN recs
    THEN [recs EXCEPT ![e] = [@ EXCEPT !.status = "completed",
                                       !.completed_at = "set"]]
    ELSE recs

\* The end of the monitor with a test of the status before the write: a
\* record that stop_recording has stopped is left alone.
completed_unless_stopped(recs, e) ==
    IF e \in DOMAIN recs /\ recs[e].status # "stopped"
    THEN [recs EXCEPT ![e] = [@ EXCEPT !.status = "completed",
                                       !.progress_percent = Hundred,
                                       !.completed_at = "set"]]
    ELSE recs

\* "Recording finished" (manager.py:132-135)
completed(recs, e) ==
    IF e \in DOMAIN recs
    THEN [recs EXCEPT ![e] = [@ EXCEPT !.status = "completed",
                                       !.progress_percent = Hundred,
                                       !.completed_at = "set"]]
    ELSE recs

\* The monitor that ends without deregistering the process (manager.py:138-
\* 139 left out).
monitor_loop_keeps_handle(e, recs, elapsed) ==
    IF proc[e] = "exited"
    THEN /\ recordings' = completed(recs, e)
         /\ processes' = processes
         /\ monitor' = [monitor EXCEPT ![e] =
                           [pc |-> "done", elapsed |-> 0, sleep_left |-> 0]]
         /\ last' = Internal
    ELSE /\ recordings' = recs
         /\ processes' = processes
         /\ monitor' = [monitor EXCEPT ![e] =
                           [pc |-> "sleeping", elapsed |-> elapsed,
                            sleep_left |-> 1]]
         /\ last' = Internal

\* The loop test of manager.py:121 and what follows it, with the record map
\* as the loop body left it: sleep again, or finish and deregister.
monitor_loop(e, recs, elapsed) ==
    IF proc[e] = "exited"
    THEN /\ recordings' = completed(recs, e)
         /\ processes' = RemoveKey(processes, e)
         /\ monitor' = [monitor EXCEPT ![e] =
                           [pc |-> "done", elapsed |-> 0, sleep_left |-> 0]]
         /\ last' = Internal
    ELSE /\ recordings' = recs
         /\ processes' = processes
         /\ monitor' = [monitor EXCEPT ![e] =
                           [pc |-> "sleeping", elapsed |-> elapsed,
                            sleep_left |-> 1]]
         /\ last' = Internal

\* The task's first run: start_time is taken here (manager.py:118-121).
MonitorStart(e) ==
    /\ LoopRunning
    /\ monitor[e].pc = "created"
    /\ monitor_loop(e, recordings, 0)
    /\ UNCHANGED <<max_concurrent, proc, launched, launching, stopping,
                   stopAll>>

\* asyncio.sleep(10) is over: one pass of the loop body (manager.py:124-129).
MonitorWake(e) ==
    /\ LoopRunning
    /\ monitor[e].pc = "sleeping"
    /\ monitor[e].sleep_left = 0
    /\ IF ~InRecordings(e)
       THEN monitor_loop(e, recordings, monitor[e].elapsed)
       ELSE IF total_seconds(e) = 0
       THEN \* ZeroDivisionError leaves the task: nothing after it runs.
            /\ monitor' = [monitor EXCEPT ![e] =
                              [pc |-> "crashed", elapsed |-> 0,
                               sleep_left |-> 0]]
            /\ last' = Internal
            /\ UNCHANGED <<recordings, processes>>
       ELSE monitor_loop(e,
                SetField(recordings, e, "progress_percent",
                         progress(monitor[e].elapsed, total_seconds(e))),
                monitor[e].elapsed)
    /\ UNCHANGED <<max_concurrent, proc, launched, launching, stopping,
                   stopAll>>

\* Ten seconds pass for every monitor that has taken its start_time.
Tick ==
    /\ LoopRunning
    /\ \E e \in EventIds : monitor[e].pc = "sleeping"
    /\ \A e \in EventIds :
          monitor[e].pc = "sleeping" => monitor[e].elapsed < MaxElapsed
    /\ monitor' = [e \in EventIds |->
                      IF monitor[e].pc = "sleeping"
                      THEN [monitor[e] EXCEPT !.elapsed = @ + 1,
                                              !.sleep_left = 0]
                      ELSE monitor[e]]
    /\ last' = Internal
    /\ UNCHANGED <<recordings, processes, max_concurrent, proc, launched,
                   launching, stopping, stopAll>>

\* ---- stop_recording -------------------------------------------------------
\* The manager's maps and the processes, as one value the stop code maps.
Manager == [recs |-> recordings, ps |-> processes, pr |-> proc]

\* The status write of stop_recording made only for a recording that is
\* still starting or recording.
stopped_if_active(recs, e) ==
    IF e \in DOMAIN recs /\ recs[e].status \in {"starting", "recording"}
    THEN SetField(recs, e, "status", "stopped")
    ELSE recs

stopped(recs, e) ==
    IF e \in DOMAIN recs THEN SetField(recs, e, "status", "stopped") ELSE recs

\* stop_recording without the test of manager.py:143: the lookup of a key
\* that is not in the dict raises KeyError.
stop_head_unguarded(m, e) ==
    IF InProcessesOf(m.ps, e)
    THEN IF m.pr[e] = "exited"
         THEN [m |-> [m EXCEPT !.ps = RemoveKey(m.ps, e),
                               !.recs = stopped(m.recs, e)],
               outcome |-> "returned"]
         ELSE [m |-> [m EXCEPT !.pr = [m.pr EXCEPT ![e] = "terminating"]],
               outcome |-> "suspended"]
    ELSE [m |-> m, outcome |-> "KeyError"]

\* stop_recording that deletes the handle before it waits for the process
\* (manager.py:147 moved before manager.py:146).
stop_head_del_first(m, e) ==
    IF InProcessesOf(m.ps, e)
    THEN IF m.pr[e] = "exited"
         THEN [m |-> [m EXCEPT !.ps = RemoveKey(m.ps, e),
                               !.recs = stopped(m.recs, e)],
               outcome |-> "returned"]
         ELSE [m |-> [m EXCEPT !.ps = RemoveKey(m.ps, e),
                               !.pr = [m.pr EXCEPT ![e] = "terminating"]],
               outcome |-> "suspended"]
    ELSE [m |-> [m EXCEPT !.recs = stopped(m.recs, e)],
          outcome |-> "returned"]

\* stop_recording up to process.wait (manager.py:143-146).  terminate() of a
\* process that has exited does nothing, and wait() does not suspend when
\* the return code is already there: the rest of the method follows at once.
stop_head(m, e) ==
    IF InProcessesOf(m.ps, e)
    THEN IF m.pr[e] = "exited"
         THEN [m |-> [m EXCEPT !.ps = RemoveKey(m.ps, e),
                               !.recs = stopped(m.recs, e)],
               outcome |-> "returned"]
         ELSE [m |-> [m EXCEPT !.pr = [m.pr EXCEPT ![e] = "terminating"]],
               outcome |-> "suspended"]
    ELSE [m |-> [m EXCEPT !.recs = stopped(m.recs, e)],
          outcome |-> "returned"]

\* stop_recording after process.wait (manager.py:147-151): del raises
\* KeyError when the key is gone.
stop_tail(m, e) ==
    IF InProcessesOf(m.ps, e)
    THEN [m |-> [m EXCEPT !.ps = RemoveKey(m.ps, e),
                          !.recs = stopped(m.recs, e)],
          outcome |-> "returned"]
    ELSE [m |-> m, outcome |-> "KeyError"]

\* The stop_recording calls of the routes that are suspended in process.wait.
RECURSIVE Waiters(_)
Waiters(S) ==
    IF S = {} THEN 0
    ELSE LET e == CHOOSE x \in S : TRUE IN stopping[e] + Waiters(S \ {e})

SetManager(m) ==
    /\ recordings' = m.recs
    /\ processes' = m.ps
    /\ proc' = m.pr

\* DELETE /record/{event_id} (routes.py:56-61) up to the first suspension.
StopRequest(e) ==
    /\ Serving
    /\ LET r == stop_head(Manager, e)
       IN  /\ r.outcome = "suspended" => Waiters(EventIds) < MaxStopWaiters
           /\ SetManager(r.m)
           /\ stopping' = IF r.outcome = "suspended"
                          THEN [stopping EXCEPT ![e] = @ + 1]
                          ELSE stopping
           /\ last' = Op("stop_recording", e, r.outcome)
    /\ UNCHANGED <<max_concurrent, launched, launching, monitor, stopAll>>

\* process.wait returned to a suspended stop_recording.
StopResumed(e) ==
    /\ LoopRunning
    /\ stopping[e] > 0
    /\ proc[e] = "exited"
    /\ LET r == stop_tail(Manager, e)
       IN  /\ SetManager(r.m)
           /\ last' = Op("stop_recording", e, r.outcome)
    /\ stopping' = [stopping EXCEPT ![e] = @ - 1]
    /\ UNCHANGED <<max_concurrent, launched, launching, monitor, stopAll>>

\* ---- stop_all -------------------------------------------------------------
\* The for loop of manager.py:155-156 from one suspension to the next.
RECURSIVE stop_all_loop(_, _)
stop_all_loop(m, todo) ==
    IF todo = << >>
    THEN [m |-> m, todo |-> todo, pc |-> "done"]
    ELSE LET r == stop_head(m, Head(todo))
         IN  IF r.outcome = "suspended"
             THEN [m |-> r.m, todo |-> todo, pc |-> "waiting"]
             ELSE stop_all_loop(r.m, Tail(todo))

\* lifespan's shutdown half (main.py:21-22): list(self._processes.keys()).
StopAllBegin ==
    /\ stopAll.pc = "idle"
    /\ LET r == stop_all_loop(Manager, processes)
       IN  /\ SetManager(r.m)
           /\ stopAll' = [pc |-> r.pc, todo |-> r.todo]
           /\ last' = Op("stop_all", "none", r.pc)
    /\ UNCHANGED <<max_concurrent, launched, launching, monitor, stopping>>

\* process.wait returned to the stop_recording that stop_all awaits.
StopAllResumed ==
    /\ stopAll.pc = "waiting"
    /\ proc[Head(stopAll.todo)] = "exited"
    /\ LET t == stop_tail(Manager, Head(stopAll.todo))
           r == stop_all_loop(t.m, Tail(stopAll.todo))
       IN  IF t.outcome = "KeyError"
           THEN /\ stopAll' = [pc |-> "error", todo |-> << >>]
                /\ last' = Op("stop_all", Head(stopAll.todo), "KeyError")
                /\ UNCHANGED <<recordings, processes, proc>>
           ELSE /\ SetManager(r.m)
                /\ stopAll' = [pc |-> r.pc, todo |-> r.todo]
                /\ last' = Op("stop_all", Head(stopAll.todo), r.pc)
    /\ UNCHANGED <<max_concurrent, launched, launching, monitor, stopping>>

Next ==
    \/ \E e \in EventIds, d \in Durations : StartRequest(e, d)
    \/ \E e \in EventIds : SpawnProcess(e)
    \/ \E e \in EventIds : LaunchSucceeded(e)
    \/ \E e \in EventIds : LaunchFailed(e)
    \/ \E e \in EventIds : ProcessExit(e)
    \/ \E e \in EventIds : MonitorStart(e)
    \/ \E e \in EventIds : MonitorWake(e)
    \/ Tick
    \/ \E e \in EventIds : StopRequest(e)
    \/ \E e \in EventIds : StopResumed(e)
    \/ StopAllBegin
    \/ StopAllResumed

Spec == Init /\ [][Next]_vars

\* ---- executions for the claims about what eventually happens --------------
Min(a, b) == IF a <= b THEN a ELSE b

\* Ten seconds pass, as in Tick, with no end to the clock: past MaxElapsed
\* the sleeps still end but the time read by the monitor is no longer
\* counted.
TickForever ==
    /\ LoopRunning
    /\ \E e \in EventIds : monitor[e].pc = "sleeping"
    /\ monitor' = [e \in EventIds |->
                      IF monitor[e].pc = "sleeping"
                      THEN [monitor[e] EXCEPT
                               !.elapsed = Min(@ + 1, MaxElapsed),
                               !.sleep_left = 0]
                      ELSE monitor[e]]
    /\ last' = Internal
    /\ UNCHANGED <<recordings, processes, max_concurrent, proc, launched,
                   launching, stopping, stopAll>>

\* The service on which nobody calls stop_recording and that is not shut
\* down.
NextNoStop ==
    \/ \E e \in EventIds, d \in Durations : StartRequest(e, d)
    \/ \E e \in EventIds : SpawnProcess(e)
    \/ \E e \in EventIds : LaunchSucceeded(e)
    \/ \E e \in EventIds : LaunchFailed(e)
    \/ \E e \in EventIds : ProcessExit(e)
    \/ \E e \in EventIds : MonitorStart(e)
    \/ \E e \in EventIds : MonitorWake(e)
    \/ TickForever

\* The event loop runs every task that is ready and ends every sleep.
MonitorFairness ==
    /\ \A e \in EventIds : WF_vars(MonitorStart(e))
    /\ \A e \in EventIds : WF_vars(MonitorWake(e))
    /\ WF_vars(TickForever)

\* Every process eventually ends, by its -t limit (manager.py:72) or by an
\* error of its input.
FairNoStop ==
    /\ Init
    /\ [][NextNoStop]_vars
    /\ MonitorFairness
    /\ \A e \in EventIds : WF_vars(ProcessExit(e))

\* The service on which every recording is asked for one minute or more,
\* stop_recording is called only for an event_id whose handle is registered,
\* and that is not shut down.
NextStopOnHandle ==
    \/ \E e \in EventIds, d \in {x \in Durations : x >= 1} : StartRequest(e, d)
    \/ \E e \in EventIds : SpawnProcess(e)
    \/ \E e \in EventIds : LaunchSucceeded(e)
    \/ \E e \in EventIds : LaunchFailed(e)
    \/ \E e \in EventIds : ProcessExit(e)
    \/ \E e \in EventIds : MonitorStart(e)
    \/ \E e \in EventIds : MonitorWake(e)
    \/ TickForever
    \/ \E e \in EventIds : InProcesses(e) /\ StopRequest(e)
    \/ \E e \in EventIds : StopResumed(e)

\* A process that got terminate() ends, and process.wait() then returns.
FairStopOnHandle ==
    /\ Init
    /\ [][NextStopOnHandle]_vars
    /\ MonitorFairness
    /\ \A e \in EventIds :
          WF_vars(proc[e] = "terminating" /\ ProcessExit(e))
    /\ \A e \in EventIds : WF_vars(StopResumed(e))


\* ---- properties -----------------------------------------------------------
Terminal == {"completed", "stopped", "failed"}

StatusEdges ==
    {<<"starting", "recording">>, <<"starting", "failed">>,
     <<"recording", "completed">>, <<"recording", "stopped">>}

\* C1: the number of records with status = recording never exceeds
\* max_concurrent when every start comes through the start endpoint.
ActiveCountWithinCeiling == active_count <= max_concurrent

\* C2: at most one process is ever launched per event_id, and a
\* start_recording call for an event_id that already has a record returns
\* that record and changes nothing: no record, handle, launch or monitor.
OneLaunchPerEvent ==
    /\ [](\A e \in EventIds : launched[e] <= 1)
    /\ [][\A e \in EventIds :
            (/\ e \in DOMAIN recordings
             /\ last'.op = "start_recording"
             /\ last'.event_id = e
             /\ last'.outcome \in {"existing", "suspended"})
            => (/\ last'.outcome = "existing"
                /\ UNCHANGED <<recordings, processes, proc, launched,
                               launching, monitor>>)]_vars

\* A second start_recording found the record of a first one that is still
\* suspended in the launch, its process already created.
RestartDuringLaunch ==
    \E e \in EventIds :
        /\ last = Op("start_recording", e, "existing")
        /\ launching[e] = "spawned"
        /\ launched[e] = 1

\* C3: every change of a record's status is one of the four edges
\* starting->recording, starting->failed, recording->completed,
\* recording->stopped, so a terminal status never changes.
StatusOnlyForward ==
    [][\A e \in DOMAIN recordings :
          recordings'[e].status # recordings[e].status
          => <<recordings[e].status, recordings'[e].status>> \in StatusEdges]_vars

\* C4: no record moves from completed, stopped or failed back to starting
\* or recording.
NoReturnFromTerminal ==
    [][\A e \in DOMAIN recordings :
          recordings[e].status \in Terminal
          => recordings'[e].status \notin {"starting", "recording"}]_vars

\* C5: stop_recording never ends in an error, called from the route or from
\* stop_all.
StopNeverRaises ==
    last.op \in {"stop_recording", "stop_all"} => last.outcome # "KeyError"

\* C6: stop_recording for an event_id with neither record nor handle raises
\* nothing and leaves the record map, the handle map and the processes as
\* they were.
StopAbsentIsNoOp ==
    [][\A e \in EventIds :
          (/\ e \notin DOMAIN recordings
           /\ ~InProcessesOf(processes, e)
           /\ last'.op = "stop_recording"
           /\ last'.event_id = e)
          => (/\ last'.outcome = "returned"
              /\ UNCHANGED <<recordings, processes, proc, stopping>>)]_vars

\* stop_recording has just returned for an event_id that has no record,
\* while another event_id has one.
StoppedAbsent ==
    \E e \in EventIds :
        /\ last = Op("stop_recording", e, "returned")
        /\ e \notin DOMAIN recordings
        /\ DOMAIN recordings # {}

\* C7: progress_percent of a record never decreases from one state to the
\* next, and a record with status = completed has progress_percent = 100.
ProgressNeverDecreases ==
    [][\A e \in DOMAIN recordings :
          /\ RatLeq(recordings[e].progress_percent,
                    recordings'[e].progress_percent)
          /\ recordings'[e].status = "completed"
             => recordings'[e].progress_percent = Hundred]_vars

\* C8: progress_percent of every record lies in [0, 100].
ProgressInRange ==
    \A e \in DOMAIN recordings :
        /\ RatLeq(Zero, recordings[e].progress_percent)
        /\ RatLeq(recordings[e].progress_percent, Hundred)

\* C9: a start_recording whose launch fails returns (it does not raise) with
\* the record failed and its error set; a record with an error never has a
\* handle, a process or a monitor.
LaunchFailureIsCaptured ==
    /\ [](\A e \in DOMAIN recordings :
            recordings[e].error # "unset"
            => (/\ ~InProcessesOf(processes, e)
                /\ monitor[e].pc = "none"
                /\ proc[e] = "none"
                /\ launched[e] = 0))
    /\ [][\A e \in EventIds :
            (launching[e] = "awaiting" /\ launching'[e] = "no")
            => (/\ last' = Op("start_recording", e, "returned")
                /\ recordings'[e].status = "failed"
                /\ recordings'[e].error # "unset"
                /\ ~InProcessesOf(processes', e)
                /\ monitor'[e].pc = "none")]_vars

\* start_recording has just returned the record of a failed launch.
LaunchHasFailed ==
    \E e \in DOMAIN recordings :
        /\ last = Op("start_recording", e, "returned")
        /\ recordings[e].status = "failed"
        /\ recordings[e].error = "launch_error"

\* C10: a record carries an error only if its status is failed.
ErrorOnlyWhenFailed ==
    \A e \in DOMAIN recordings :
        recordings[e].error # "unset" => recordings[e].status = "failed"

\* C11: every event_id in the handle map has a record, and while a
\* start_recording for an event_id is suspended in the launch its record is
\* already there, so get_recording finds it.
HandleAndLaunchHaveRecord ==
    \A e \in EventIds :
        /\ InProcesses(e) => e \in DOMAIN recordings
        /\ launching[e] # "no"
           => (/\ e \in DOMAIN recordings
               /\ get_recording(e) # None
               /\ get_recording(e).event_id = e)

\* A start_recording is suspended in the launch, its process not yet made,
\* and the record it inserted still says starting.
SuspendedInLaunch ==
    \E e \in EventIds :
        /\ launching[e] = "awaiting"
        /\ get_recording(e) # None
        /\ get_recording(e).status = "starting"

\* C12: a handle leaves the handle map only in a step that starts with its
\* process exited, and every process whose launch has returned and that has
\* not exited has its handle in the map, whatever stop_recording, stop_all
\* and the monitors do.
HandleRemovedOnlyAfterExit ==
    /\ [](\A e \in EventIds :
            (launching[e] = "no" /\ proc[e] \in {"running", "terminating"})
            => InProcesses(e))
    /\ [][\A e \in EventIds :
            (InProcesses(e) /\ ~InProcessesOf(processes', e))
            => proc[e] = "exited"]_vars

\* One process has exited and lost its handle while another, still running,
\* keeps its own.
HandleGoneAfterExit ==
    \E e, f \in EventIds :
        /\ proc[e] = "exited"
        /\ monitor[e].pc # "none"
        /\ ~InProcesses(e)
        /\ proc[f] \in {"running", "terminating"}
        /\ InProcesses(f)

\* C13: once stop_all has ended at shutdown, no launched process is still
\* running and the handle map is empty, whatever start_recording or
\* stop_recording call was suspended when it began.
StopAllLeavesNothingRunning ==
    stopAll.pc \in {"done", "error"}
    => (/\ processes = << >>
        /\ \A e \in EventIds : proc[e] \notin {"running", "terminating"})

\* C14: no monitor ends in an unhandled error, whatever integer the
\* duration is, so the monitor of an exited process can always end and
\* remove the handle.
MonitorNeverCrashes ==
    \A e \in EventIds : monitor[e].pc # "crashed"

\* C15: a recording of one minute or more whose launch succeeds and that
\* nobody stops goes from starting to recording inside start_recording, and
\* from recording it is eventually completed with progress_percent = 100
\* and completed_at set, and stays so.
RecordingRunsToCompleted ==
    /\ [][\A e \in EventIds :
            (launching[e] = "spawned" /\ launching'[e] = "no")
            => (/\ recordings[e].status = "starting"
                /\ recordings'[e].status = "recording")]_vars
    /\ \A e \in EventIds :
          (/\ e \in DOMAIN recordings
           /\ recordings[e].status = "recording"
           /\ recordings[e].duration_minutes >= 1)
          ~> [](/\ e \in DOMAIN recordings
                /\ recordings[e].status = "completed"
                /\ recordings[e].progress_percent = Hundred
                /\ recordings[e].completed_at = "set")

\* A recording of one minute that nobody stopped has been completed by its
\* monitor before the planned time was over.
CompletedUnstopped ==
    \E e \in DOMAIN recordings :
        /\ recordings[e].duration_minutes >= 1
        /\ recordings[e].status = "completed"
        /\ recordings[e].progress_percent = Hundred
        /\ recordings[e].completed_at = "set"
        /\ monitor[e].pc = "done"
        /\ proc[e] = "exited"

\* C16: when stop_recording returns normally for an event_id that has a
\* record, the record says stopped, whatever its status was and whether or
\* not a handle was registered, and the returning step changes no other
\* field of it and no other record.
StopReturnsStopped ==
    [][\A e \in EventIds :
          (/\ e \in DOMAIN recordings
           /\ last'.op = "stop_recording"
           /\ last'.event_id = e
           /\ last'.outcome = "returned")
          => (/\ recordings'[e] = [recordings[e] EXCEPT !.status = "stopped"]
              /\ \A f \in DOMAIN recordings \ {e} :
                    recordings'[f] = recordings[f]
              /\ DOMAIN recordings' = DOMAIN recordings)]_vars

\* stop_recording has just returned for a recording that its monitor had
\* completed and deregistered: the record says stopped and keeps the rest.
StoppedAfterCompleted ==
    \E e \in DOMAIN recordings :
        /\ last = Op("stop_recording", e, "returned")
        /\ recordings[e].status = "stopped"
        /\ recordings[e].completed_at = "set"
        /\ recordings[e].progress_percent = Hundred
        /\ monitor[e].pc = "done"

\* C17: the last writer of the status wins.  The monitor that ends writes
\* completed, progress_percent = 100 and completed_at over any status,
\* stopped included, and a stop_recording that returns writes stopped over
\* any status, completed included: neither reads the status first.
LastWriteWins ==
    [][\A e \in DOMAIN recordings :
          /\ (monitor[e].pc \in {"created", "sleeping"}
              /\ monitor'[e].pc = "done")
             => (/\ recordings'[e].status = "completed"
                 /\ recordings'[e].progress_percent = Hundred
                 /\ recordings'[e].completed_at = "set")
          /\ (recordings[e].status \in {"completed", "stopped"}
              /\ last' = Op("stop_recording", e, "returned"))
             => recordings'[e].status = "stopped"]_vars

\* stop_recording has waited for the process, removed the handle and set
\* stopped; the monitor has not yet seen the exit and its next run ends it.
StoppedBeforeMonitorEnds ==
    \E e \in DOMAIN recordings :
        /\ recordings[e].status = "stopped"
        /\ recordings[e].completed_at = "unset"
        /\ last = Op("stop_recording", e, "returned")
        /\ proc[e] = "exited"
        /\ ~InProcesses(e)
        /\ monitor[e].pc = "sleeping"
        /\ monitor[e].sleep_left = 0

\* C18: a record has status = recording exactly when its event_id is in
\* the handle map, so active_count is the number of handles.
RecordingIffHandle ==
    /\ \A e \in EventIds :
          (e \in DOMAIN recordings /\ recordings[e].status = "recording")
          <=> InProcesses(e)
    /\ active_count = Len(processes)

\* One recording has ended and lost its handle, by its monitor or by
\* stop_recording, while another is recording with its handle registered.
OneEndedOneRecording ==
    \E e, f \in DOMAIN recordings :
        /\ recordings[e].status \in {"completed", "stopped"}
        /\ launched[e] = 1
        /\ ~InProcesses(e)
        /\ recordings[f].status = "recording"
        /\ InProcesses(f)
        /\ active_count = 1

\* C19: when stop_recording is called for a recording of one minute or
\* more while its handle is registered, and not called once the handle is
\* gone, the record eventually says completed and keeps saying so: it does
\* not settle in stopped.
StoppedSettlesCompleted ==
    \A e \in EventIds :
        (/\ e \in DOMAIN recordings
         /\ recordings[e].duration_minutes >= 1
         /\ last.op = "stop_recording"
         /\ last.event_id = e)
        ~> [](/\ e \in DOMAIN recordings
              /\ recordings[e].status = "completed")

\* The stop_recording of a one-minute recording was suspended in
\* process.wait when the monitor ended: the call is over and the record
\* says completed.
CompletedThoughStopped ==
    \E e \in DOMAIN recordings :
        /\ recordings[e].duration_minutes >= 1
        /\ recordings[e].status = "completed"
        /\ last.op = "stop_recording"
        /\ last.event_id = e
        /\ stopping[e] = 0
        /\ monitor[e].pc = "done"

\* C20: the time-shift lookup answers not-found exactly for the event_ids
\* that have no record; every record has a non-empty timeshift_url from its
\* insertion on, in status starting and failed too; the URL never changes;
\* and the lookup returns it with the record's current status.
TimeshiftFoundIffRecord ==
    /\ [](\A e \in EventIds :
            /\ get_timeshift_url(e).http = 404 <=> e \notin DOMAIN recordings
            /\ e \in DOMAIN recordings
               => (/\ recordings[e].timeshift_url # << >>
                   /\ get_timeshift_url(e).http = 200
                   /\ get_timeshift_url(e).timeshift_url = timeshift_url(e)
                   /\ get_timeshift_url(e).status = recordings[e].status))
    /\ [][\A e \in DOMAIN recordings :
            recordings'[e].timeshift_url = recordings[e].timeshift_url]_vars

\* The lookup finds the URL of a record whose launch failed, so no process
\* ever wrote a playlist, and finds nothing for an event_id never started.
TimeshiftOfFailedLaunch ==
    \E e, f \in EventIds :
        /\ e \in DOMAIN recordings
        /\ recordings[e].status = "failed"
        /\ launched[e] = 0
        /\ get_timeshift_url(e).http = 200
        /\ get_timeshift_url(e).status = "failed"
        /\ get_timeshift_url(f).http = 404

====
